---- MODULE Spec2Model ----
(***************************************************************************)
(* cypress-report-results: a Cypress plugin that collects the results of   *)
(* every spec file of a run and mails a textual report when the run ends.  *)
(*                                                                         *)
(* src/src/index.js holds two variants of the plugin.  The "file" variant  *)
(* (lines 376-788) resolves its settings from cypress-report-results.      *)
(* config.js into the module-level `options`; the "options" variant (lines *)
(* 1-375) takes an options argument and environment variables.  Both       *)
(* register the same three hooks: before:run, after:spec and after:run.    *)
(*                                                                         *)
(* Representation.  A JavaScript string supplied by the host (a spec path, *)
(* a test title) is a sequence of one-character strings, so that join,     *)
(* substring and repeat are computed as the code computes them.  The fixed *)
(* pieces of the report template are single tokens of the same kind of     *)
(* sequence.  An e-mail address is an atomic string.  A JavaScript object  *)
(* used as a dictionary is the sequence of its <<key, value>> pairs in the *)
(* order Object.keys enumerates them.                                      *)
(***************************************************************************)
EXTENDS Integers, Sequences, FiniteSets, TLC

(***************************************************************************)
(* Bounds of the model.                                                    *)
(***************************************************************************)
\* run-complete events handled by one registration
MaxRuns == 2
\* distinct spec files held by the result store
MaxFiles == 2

(***************************************************************************)
(* Sequences and strings.                                                  *)
(***************************************************************************)
Range(s) == {s[i] : i \in 1..Len(s)}

NoDuplicates(s) == \A i, j \in 1..Len(s) : i # j => s[i] # s[j]

\* Array.prototype.join: the elements of `parts` with `sep` between them
RECURSIVE Join(_, _)
Join(parts, sep) ==
    IF Len(parts) = 0 THEN <<>>
    ELSE IF Len(parts) = 1 THEN parts[1]
    ELSE parts[1] \o sep \o Join(Tail(parts), sep)

\* String.prototype.substring(0, n)
Substring0(s, n) == SubSeq(s, 1, IF Len(s) < n THEN Len(s) ELSE n)

Digits == <<"0", "1", "2", "3", "4", "5", "6", "7", "8", "9">>

DigitValue(c) == (CHOOSE i \in 1..10 : Digits[i] = c) - 1

IsDigit(c) == c \in Range(Digits)

\* the decimal numeral of a natural number (template interpolation of a count)
RECURSIVE DecStr(_)
DecStr(n) == IF n < 10 THEN <<Digits[n + 1]>> ELSE DecStr(n \div 10) \o <<Digits[(n % 10) + 1]>>

\* the number a digit string denotes
RECURSIVE DecValue(_)
DecValue(s) == IF Len(s) = 0 THEN 0 ELSE 10 * DecValue(SubSeq(s, 1, Len(s) - 1)) + DigitValue(s[Len(s)])

(***************************************************************************)
(* JavaScript objects used as dictionaries.  An object is the sequence of  *)
(* its <<key, value>> pairs in own-property order: keys that are array     *)
(* indices first, in ascending numeric order, then the other string keys   *)
(* in the order they were first assigned.                                  *)
(***************************************************************************)
EmptyObject == <<>>

ObjKeys(o) == [i \in 1..Len(o) |-> o[i][1]]

ObjHas(o, k) == \E i \in 1..Len(o) : o[i][1] = k

ObjGet(o, k) == o[CHOOSE i \in 1..Len(o) : o[i][1] = k][2]

\* a canonical numeric string: digits only and no leading zero.  (JavaScript
\* also wants it below 2^32 - 1; the keys here have at most nine digits, which
\* are all below it.)
IsArrayIndex(k) ==
    /\ Len(k) >= 1
    /\ Len(k) <= 9
    /\ \A i \in 1..Len(k) : IsDigit(k[i])
    /\ (Len(k) > 1 => k[1] # "0")

\* number of leading pairs of o that stay in front of a new key k
InsertPosition(o, k) ==
    IF IsArrayIndex(k)
    THEN Cardinality({i \in 1..Len(o) : IsArrayIndex(o[i][1]) /\ DecValue(o[i][1]) < DecValue(k)})
    ELSE Len(o)

\* o[k] = v
ObjSet(o, k, v) ==
    IF ObjHas(o, k)
    THEN [i \in 1..Len(o) |-> IF o[i][1] = k THEN <<k, v>> ELSE o[i]]
    ELSE LET n == InsertPosition(o, k)
         IN  SubSeq(o, 1, n) \o <<<<k, v>>>> \o SubSeq(o, n + 1, Len(o))

(***************************************************************************)
(* Test statuses and the result store.                                     *)
(***************************************************************************)
validStatuses == {"passed", "failed", "pending", "skipped"}

\* a slip: the status is not checked against validStatuses
StatusNeverThrows(status) == FALSE

\* getStatusEmoji: the symbol of a valid status; an invalid one throws
StatusThrows(status) == status \notin validStatuses

getStatusEmoji(status) ==
    CASE status = "passed" -> "(check mark)"
      [] status = "failed" -> "(cross mark)"
      [] status = "pending" -> "(hourglass)"
      [] status = "skipped" -> "(warning sign)"
      [] OTHER -> "undefined"

\* '-'.repeat(s.length)
dashes(s) == [i \in 1..Len(s) |-> "-"]

\* t.title.join(' ')
testTitle(t) == Join(t.title, <<" ">>)

\* the forEach of after:spec: r[testTitle] = t.state for every test, in order
RECURSIVE FillSpecResults(_, _)
FillSpecResults(r, tests) ==
    IF Len(tests) = 0 THEN r
    ELSE FillSpecResults(ObjSet(r, testTitle(tests[1]), tests[1].state), Tail(tests))

\* a slip: the entry of a path is merged into, not replaced
KeptEntry(old) == old

\* what after:spec starts the entry of a path from: allResults[path] = {}
FreshEntry(old) == EmptyObject

\* the store after after:spec(spec, results)
RecordSpec(store, path, tests) ==
    LET old == IF ObjHas(store, path) THEN ObjGet(store, path) ELSE EmptyObject
    IN  ObjSet(store, path, FillSpecResults(FreshEntry(old), tests))

(***************************************************************************)
(* E-mail addresses.  isEmail tests a fixed regular expression; on the     *)
(* strings of the model it accepts exactly the well-formed addresses.      *)
(***************************************************************************)
ValidAddresses == {"from@x.io", "a@x.io", "b@x.io", "c@x.io"}

InvalidAddresses == {"", "not-an-email"}

isEmail(email) == email \in ValidAddresses

\* validateAndReturnEmail on an array: throws when an element is no address
ValidateThrows(emails) == \E i \in 1..Len(emails) : ~isEmail(emails[i])

(***************************************************************************)
(* Dates.  A Date is its toISOString() text and its day of the week; the   *)
(* last-run marker is the text of the environment variable LAST_RUN_DATE,  *)
(* empty when the variable is unset or empty.                              *)
(***************************************************************************)
\* substring(0, 10): the calendar date of an ISO-8601 text
DateLen == 10

Jun03 == <<"2", "0", "2", "3", "-", "0", "6", "-", "0", "3">>

Jun07 == <<"2", "0", "2", "3", "-", "0", "6", "-", "0", "7">>

TimeOfDay == <<"T", "0", "9", ":", "5", "5", ":", "4", "2", ".", "0", "0", "0", "Z">>

Quote == <<"\"">>

Saturday == [iso |-> Jun03 \o TimeOfDay, weekday |-> "Saturday"]

Wednesday == [iso |-> Jun07 \o TimeOfDay, weekday |-> "Wednesday"]

Dates == {Saturday, Wednesday}

NoMarker == <<>>

Markers == {NoMarker, Jun03 \o TimeOfDay, Jun07 \o TimeOfDay, Quote \o Jun07 \o TimeOfDay \o Quote}

toISOString(date) == date.iso

\* the comparison of lines 296 and 702
SameDay(marker, today) == Substring0(marker, DateLen) = Substring0(toISOString(today), DateLen)

\* hasRunToday as the success branch computes it (lines 285-297, 693-703)
hasRunTodayOf(marker, today) == IF marker # NoMarker THEN SameDay(marker, today) ELSE FALSE

(***************************************************************************)
(* The decision of after:run.                                              *)
(***************************************************************************)
runStatusOf(totals) == IF totals.failed > 0 THEN "FAILED" ELSE "OK"

\* a slip: the append is not limited to failed runs
EscalatesAnyRun(cfg, totals) == Len(cfg.emailToOnFail) > 0

\* lines 274 and 679: the condition of the append to emailTo
Escalates(cfg, totals) == totals.failed > 0 /\ Len(cfg.emailToOnFail) > 0

\* lines 275 and 680: emailTo.push(...emailToOnFail)
Escalated(cfg, totals) ==
    IF Escalates(cfg, totals) THEN cfg.emailTo \o cfg.emailToOnFail ELSE cfg.emailTo

\* line 275: validateAndReturnEmail(process.env.EMAIL_TO_ON_FAILURE.split(','))
\* throws on an invalid address; the file variant validated at registration
EscalationThrows(variant, cfg, totals) ==
    variant = "options" /\ Escalates(cfg, totals) /\ ValidateThrows(cfg.emailToOnFail)

\* a slip: the emailOnSuccess gate is applied to failed runs too
SuccessDisabledAnyRun(cfg, totals) == ~cfg.emailOnSuccess

\* a slip: the early return on emailOnSuccess is missing
SuccessGateMissing(cfg, totals) == FALSE

\* lines 281 and 688: a successful run is not mailed when emailOnSuccess is off
SuccessDisabled(cfg, totals) == totals.failed = 0 /\ ~cfg.emailOnSuccess

\* lines 285-303, 693-709: a successful run was already mailed today
AlreadyToday(cfg, totals, marker, today) ==
    totals.failed = 0 /\ cfg.emailOnSuccess /\ hasRunTodayOf(marker, today)

Suppressed(cfg, totals, marker, today) ==
    SuccessDisabled(cfg, totals) \/ AlreadyToday(cfg, totals, marker, today)

(***************************************************************************)
(* The report.  A text is a sequence of tokens: the characters of the      *)
(* host's strings, and the fixed pieces of the template.                   *)
(***************************************************************************)
NL == <<"\n">>

\* lines 254-261, 659-666
totalsOf(afterRun) ==
    [suites |-> afterRun.totalSuites, tests |-> afterRun.totalTests,
     failed |-> afterRun.totalFailed, passed |-> afterRun.totalPassed,
     pending |-> afterRun.totalPending, skipped |-> afterRun.totalSkipped]

\* lines 311 and 717: Object.keys(allResults).length
fileCount(store) == Len(ObjKeys(store))

\* lines 313-316, 719-722
textStart(totals, n) ==
    DecStr(totals.tests) \o <<" total tests across ">> \o DecStr(n) \o <<" test files.">> \o NL
    \o DecStr(totals.passed) \o <<" tests passed, ">> \o DecStr(totals.failed) \o <<" failed, ">>
    \o DecStr(totals.pending) \o <<" pending, ">> \o DecStr(totals.skipped) \o <<" skipped.">>

\* lines 326-330, 732-736: one line per key of the file's entry
testLine(specResults, testName) ==
    <<getStatusEmoji(ObjGet(specResults, testName))>> \o <<" ">> \o testName

\* lines 320-332, 725-738: the section of one file
specSection(store, spec) ==
    LET specResults == ObjGet(store, spec)
        names == ObjKeys(specResults)
    IN  spec \o NL \o dashes(spec) \o NL
        \o Join([i \in 1..Len(names) |-> testLine(specResults, names[i])], NL)

\* the files the report lists, in order (lines 317 and 723)
reportFiles(store) == ObjKeys(store)

\* lines 317-334, 723-740
testResults(store) ==
    LET specs == reportFiles(store)
    IN  Join([i \in 1..Len(specs) |-> specSection(store, specs[i])], NL \o NL)

\* getStatusEmoji throws on the first status outside validStatuses
RenderThrows(store) ==
    \E i \in 1..Len(store) : \E j \in 1..Len(store[i][2]) : StatusThrows(store[i][2][j][2])

\* getProjectName: the configured name, else the name of package.json
getProjectName(cfg, env) == IF Len(cfg.packageName) > 0 THEN cfg.packageName ELSE env.pkgName

\* lines 338-340, 744-746
subjectOf(name, runStatus) ==
    IF Len(name) > 0
    THEN name \o <<" - Cypress tests ">> \o <<runStatus>>
    ELSE <<"Cypress tests ">> \o <<runStatus>>

\* lines 342 and 748
dashboardOf(afterRun) ==
    IF Len(afterRun.runUrl) > 0 THEN <<"Run url: ">> \o afterRun.runUrl \o NL ELSE <<>>

\* lines 752-760: the file variant adds the marker and hasRunToday
markerLines(variant, marker, hasRunToday) ==
    IF variant = "file" /\ marker # NoMarker
    THEN NL \o NL \o NL \o <<"Last run date: ">> \o marker
         \o NL \o NL \o NL \o <<"Has run today: ">> \o <<IF hasRunToday THEN "true" ELSE "false">>
    ELSE <<>>

\* lines 348-351, 762-765; humanizeDuration is an external library
ciLines(env, afterRun) ==
    IF env.isCI /\ Len(env.ciName) > 0
    THEN NL \o NL \o NL \o env.ciName \o <<" duration ">> \o <<"humanizeDuration(">> \o DecStr(afterRun.totalDuration) \o <<")">>
    ELSE <<>>

\* lines 344-351, 750-765
textOf(variant, env, store, afterRun, marker, hasRunToday) ==
    textStart(totalsOf(afterRun), fileCount(store)) \o NL \o NL \o dashboardOf(afterRun) \o NL \o NL
    \o testResults(store) \o markerLines(variant, marker, hasRunToday) \o ciLines(env, afterRun)

\* lines 353-358, 767-772
emailOptionsOf(variant, env, cfg, to, store, afterRun, marker, hasRunToday) ==
    [from |-> cfg.emailFrom,
     to |-> to,
     subject |-> subjectOf(getProjectName(cfg, env), runStatusOf(totalsOf(afterRun))),
     text |-> textOf(variant, env, store, afterRun, marker, hasRunToday)]

NoMail == [from |-> "", to |-> <<>>, subject |-> <<>>, text |-> <<>>]

(***************************************************************************)
(* JavaScript values of the settings, tagged with their typeof.            *)
(***************************************************************************)
Absent == [t |-> "absent"]

Null == [t |-> "null"]

Str(s) == [t |-> "str", s |-> s]

Arr(a) == [t |-> "arr", a |-> a]

Bool(b) == [t |-> "bool", b |-> b]

Num(n) == [t |-> "num", n |-> n]

\* a mail transport object, with or without a sendMail method
Transport(hasSendMail) == [t |-> "obj", sendMail |-> hasSendMail]

Truthy(v) ==
    CASE v.t = "str" -> Len(v.s) > 0
      [] v.t = "arr" -> TRUE
      [] v.t = "bool" -> v.b
      [] v.t = "num" -> v.n # 0
      [] v.t = "obj" -> TRUE
      [] OTHER -> FALSE

\* [...new Set(list)]: the first occurrence of every element, in order
RECURSIVE Dedupe(_)
Dedupe(list) ==
    IF Len(list) = 0 THEN <<>>
    ELSE LET front == Dedupe(SubSeq(list, 1, Len(list) - 1))
             x == list[Len(list)]
         IN  IF x \in Range(front) THEN front ELSE Append(front, x)

(***************************************************************************)
(* Registration, file variant: loadOptions, validateOptions,               *)
(* initEmailSender (lines 385-489, 572-632).                               *)
(***************************************************************************)
OptionKeys == {"packageName", "emailFrom", "emailTo", "emailToOnFail", "emailOnSuccess", "dry", "transport"}

defaultOptions ==
    [packageName |-> Str(<<>>), emailFrom |-> Str(""), emailTo |-> Str(""), emailToOnFail |-> Str(""),
     emailOnSuccess |-> Bool(TRUE), dry |-> Bool(FALSE), transport |-> Null]

\* lines 417-424: a string becomes a one-element array
AsArray(v) == IF v.t = "str" THEN Arr(<<v.s>>) ELSE v

\* lines 411-424: { ...defaultOptions, ...customOptions }, then the two arrays
loadedOptions(custom) ==
    LET merged == [k \in OptionKeys |-> IF custom[k].t = "absent" THEN defaultOptions[k] ELSE custom[k]]
    IN  [merged EXCEPT !.emailTo = AsArray(@), !.emailToOnFail = AsArray(@)]

\* a slip: an empty array is not rejected
validateEmailsAcceptsEmpty(emails, mustBeString, canBeEmpty) ==
    IF canBeEmpty /\ emails.t = "str" /\ emails.s = "" THEN FALSE
    ELSE IF mustBeString /\ emails.t # "str" THEN TRUE
    ELSE IF emails.t = "str" THEN ~isEmail(emails.s)
    ELSE IF emails.t = "arr" THEN ValidateThrows(Dedupe(emails.a))
    ELSE TRUE

\* validateEmails (lines 451-489): TRUE when it throws
validateEmailsThrows(emails, mustBeString, canBeEmpty) ==
    IF canBeEmpty /\ emails.t = "str" /\ emails.s = "" THEN FALSE
    ELSE IF mustBeString /\ emails.t # "str" THEN TRUE
    ELSE IF emails.t = "str" THEN ~isEmail(emails.s)
    ELSE IF emails.t = "arr"
         THEN Len(emails.a) = 0 \/ ValidateThrows(Dedupe(emails.a))
    ELSE TRUE

\* validateOptions (lines 429-449): TRUE when it throws
validateOptionsThrows(o) ==
    \/ validateEmailsThrows(o.emailFrom, TRUE, FALSE)
    \/ validateEmailsThrows(o.emailTo, FALSE, FALSE)
    \/ validateEmailsThrows(o.emailToOnFail, FALSE, TRUE)
    \/ o.packageName.t # "str"
    \/ o.emailOnSuccess.t # "bool"
    \/ o.dry.t # "bool"

\* initSmtpTransport (lines 25-59, 491-525): a nodemailer transport, or false
initSmtpTransport(env) == IF env.smtp THEN Transport(TRUE) ELSE Bool(FALSE)

\* initEmailSender (lines 139-152, 572-585): TRUE when it throws
initEmailSenderThrows(transport, env) ==
    LET emailSender == IF Truthy(transport) THEN transport ELSE initSmtpTransport(env)
    IN  ~Truthy(emailSender) \/ emailSender.t # "obj" \/ ~emailSender.sendMail

\* registerCypressReportResults, file variant, up to the first on(): TRUE when it throws
fileRegisterThrows(w) ==
    \/ ~w.given
    \/ validateOptionsThrows(loadedOptions(w.custom))
    \/ ~w.on
    \/ initEmailSenderThrows(loadedOptions(w.custom).transport, w.env)

\* the settings the handlers of the file variant read from `options`
fileResolved(w) ==
    LET o == loadedOptions(w.custom)
    IN  [emailFrom |-> o.emailFrom.s, emailTo |-> o.emailTo.a, emailToOnFail |-> o.emailToOnFail.a,
         emailOnSuccess |-> o.emailOnSuccess.b, dry |-> o.dry.b, packageName |-> o.packageName.s]

(***************************************************************************)
(* Registration, options variant: getEmailFrom, getEmailTo,                *)
(* initEmailSender (lines 106-227).  An environment variable that holds a  *)
(* comma-separated list is the sequence of its items, empty when unset.    *)
(***************************************************************************)
\* getEmailFrom (lines 106-137): TRUE when it throws
getEmailFromThrows(o, env) ==
    IF Truthy(o.emailFrom)
    THEN o.emailFrom.t # "str" \/ ~isEmail(o.emailFrom.s)
    ELSE env.EMAIL_FROM = "" \/ ~isEmail(env.EMAIL_FROM)

getEmailFrom(o, env) == IF Truthy(o.emailFrom) THEN o.emailFrom.s ELSE env.EMAIL_FROM

\* validateAndReturnEmail (lines 154-182, 587-615) on a settings value
validateAndReturnEmailThrows(v) ==
    CASE v.t = "str" -> ~isEmail(v.s)
      [] v.t = "arr" -> ValidateThrows(v.a)
      [] OTHER -> FALSE

validateAndReturnEmail(v) ==
    CASE v.t = "str" -> <<v.s>>
      [] v.t = "arr" -> v.a
      [] OTHER -> <<>>

\* getEmailTo (lines 184-206) before the check for emptiness
collectedEmailTo(o, env) ==
    (IF Truthy(o.emailTo) THEN validateAndReturnEmail(o.emailTo) ELSE <<>>)
    \o (IF Len(env.EMAIL_TO) > 0 THEN env.EMAIL_TO ELSE <<>>)

getEmailToThrows(o, env) ==
    \/ Truthy(o.emailTo) /\ validateAndReturnEmailThrows(o.emailTo)
    \/ Len(env.EMAIL_TO) > 0 /\ ValidateThrows(env.EMAIL_TO)
    \/ Len(collectedEmailTo(o, env)) = 0

getEmailTo(o, env) == Dedupe(collectedEmailTo(o, env))

\* registerCypressReportResults, options variant, up to the first on(): TRUE when it throws
optionsRegisterThrows(w) ==
    \/ ~w.given
    \/ ~w.on
    \/ getEmailFromThrows(w.custom, w.env)
    \/ getEmailToThrows(w.custom, w.env)
    \/ initEmailSenderThrows(w.custom.transport, w.env)

\* lines 218-227, and what after:run reads from process.env (lines 69-71, 274-275)
optionsResolved(w) ==
    [emailFrom |-> getEmailFrom(w.custom, w.env),
     emailTo |-> getEmailTo(w.custom, w.env),
     emailToOnFail |-> w.env.EMAIL_TO_ON_FAILURE,
     emailOnSuccess |-> IF w.custom.emailOnSuccess.t = "absent" THEN TRUE ELSE Truthy(w.custom.emailOnSuccess),
     dry |-> IF w.custom.dry.t = "absent" THEN FALSE ELSE Truthy(w.custom.dry),
     packageName |-> w.env.PACKAGE_NAME]

registerThrows(w) == IF w.variant = "file" THEN fileRegisterThrows(w) ELSE optionsRegisterThrows(w)

resolvedOptions(w) == IF w.variant = "file" THEN fileResolved(w) ELSE optionsResolved(w)

\* the statements of registerCypressReportResults in the order they run;
\* the last three are the calls of on()
fileSteps == <<"loadOptions", "on", "initEmailSender", "before:run", "after:spec", "after:run">>

optionsSteps ==
    <<"options", "on", "getEmailFrom", "getEmailTo", "initEmailSender", "before:run", "after:spec", "after:run">>

\* a slip: the mail sender is initialised after the hooks are registered
lateSenderSteps(variant) ==
    IF variant = "file"
    THEN <<"loadOptions", "on", "before:run", "after:spec", "after:run", "initEmailSender">>
    ELSE <<"options", "on", "getEmailFrom", "getEmailTo", "before:run", "after:spec", "after:run", "initEmailSender">>

registrationSteps(variant) == IF variant = "file" THEN fileSteps ELSE optionsSteps

\* the statement throws
StepThrows(w, step) ==
    CASE step = "loadOptions" -> ~w.given \/ validateOptionsThrows(loadedOptions(w.custom))
      [] step = "options" -> ~w.given
      [] step = "on" -> ~w.on
      [] step = "getEmailFrom" -> getEmailFromThrows(w.custom, w.env)
      [] step = "getEmailTo" -> getEmailToThrows(w.custom, w.env)
      [] step = "initEmailSender" ->
            initEmailSenderThrows(IF w.variant = "file" THEN loadedOptions(w.custom).transport
                                  ELSE w.custom.transport, w.env)
      [] OTHER -> FALSE

\* the hooks whose on() ran before the first statement that throws
HooksRegistered(w) ==
    LET steps == registrationSteps(w.variant)
        done == {i \in 1..Len(steps) : \A j \in 1..i : ~StepThrows(w, steps[j])}
    IN  {steps[i] : i \in done} \cap {"before:run", "after:spec", "after:run"}

NoOptions ==
    [emailFrom |-> "", emailTo |-> <<>>, emailToOnFail |-> <<>>, emailOnSuccess |-> TRUE, dry |-> FALSE,
     packageName |-> <<>>]

Hooks == {"before:run", "after:spec", "after:run"}

(***************************************************************************)
(* The worlds a registration runs in: the variant of the plugin, the       *)
(* settings it is given (the contents of the config file, or the options   *)
(* argument), the `on` function and the environment.                       *)
(***************************************************************************)
NoCustom == [k \in OptionKeys |-> Absent]

BaseEnv ==
    [EMAIL_FROM |-> "", EMAIL_TO |-> <<>>, EMAIL_TO_ON_FAILURE |-> <<>>, PACKAGE_NAME |-> <<>>,
     smtp |-> FALSE, pkgName |-> <<"p", "k", "g">>, isCI |-> FALSE, ciName |-> <<>>]

CiEnv == [BaseEnv EXCEPT !.smtp = TRUE, !.isCI = TRUE, !.ciName = <<"C", "I">>, !.pkgName = <<>>]

World(variant, given, custom, env) == [variant |-> variant, given |-> given, on |-> TRUE, custom |-> custom, env |-> env]

FileWorlds ==
    {World("file", TRUE,
           [NoCustom EXCEPT !.emailFrom = Str("from@x.io"), !.emailTo = Str("a@x.io"),
                            !.emailToOnFail = Arr(<<"b@x.io">>), !.transport = Transport(TRUE)],
           BaseEnv),
     World("file", TRUE,
           [NoCustom EXCEPT !.emailFrom = Str("from@x.io"), !.emailTo = Arr(<<"a@x.io", "b@x.io">>),
                            !.emailToOnFail = Arr(<<"b@x.io", "c@x.io">>), !.emailOnSuccess = Bool(FALSE),
                            !.packageName = Str(<<"p">>)],
           CiEnv),
     World("file", TRUE,
           [NoCustom EXCEPT !.emailFrom = Str("from@x.io"), !.emailTo = Arr(<<"a@x.io", "a@x.io">>),
                            !.emailToOnFail = Str("c@x.io"), !.dry = Bool(TRUE), !.transport = Transport(TRUE)],
           BaseEnv),
     World("file", TRUE,
           [NoCustom EXCEPT !.emailFrom = Str("from@x.io"), !.emailTo = Str("a@x.io"),
                            !.transport = Transport(TRUE)],
           BaseEnv),
     World("file", TRUE,
           [NoCustom EXCEPT !.emailFrom = Str("not-an-email"), !.emailTo = Str("a@x.io"),
                            !.emailToOnFail = Str("c@x.io"), !.transport = Transport(TRUE)],
           BaseEnv),
     World("file", TRUE,
           [NoCustom EXCEPT !.emailFrom = Str("from@x.io"), !.emailTo = Str("a@x.io"),
                            !.emailToOnFail = Str("c@x.io"), !.transport = Transport(FALSE)],
           BaseEnv),
     World("file", FALSE, NoCustom, BaseEnv)}

OptionsWorlds ==
    {World("options", TRUE,
           [NoCustom EXCEPT !.emailFrom = Str("from@x.io"), !.emailTo = Arr(<<"a@x.io", "b@x.io">>),
                            !.transport = Transport(TRUE)],
           [BaseEnv EXCEPT !.EMAIL_TO_ON_FAILURE = <<"b@x.io">>]),
     World("options", TRUE,
           [NoCustom EXCEPT !.emailOnSuccess = Bool(FALSE), !.transport = Transport(TRUE)],
           [BaseEnv EXCEPT !.EMAIL_FROM = "from@x.io", !.EMAIL_TO = <<"a@x.io">>,
                           !.EMAIL_TO_ON_FAILURE = <<"not-an-email">>, !.PACKAGE_NAME = <<"p">>]),
     World("options", TRUE,
           [NoCustom EXCEPT !.emailFrom = Str("from@x.io"), !.emailTo = Str("a@x.io"), !.dry = Bool(TRUE)],
           CiEnv),
     World("options", TRUE,
           [NoCustom EXCEPT !.emailFrom = Str("from@x.io"), !.transport = Transport(TRUE)],
           BaseEnv),
     World("options", FALSE, NoCustom, BaseEnv)}

\* settings a registration accepts, to vary one key at a time
GoodCustom ==
    [NoCustom EXCEPT !.emailFrom = Str("from@x.io"), !.emailTo = Str("a@x.io"),
                     !.emailToOnFail = Str("c@x.io"), !.transport = Transport(TRUE)]

\* worlds whose registration fails, one for each reason
FailingFileWorlds ==
    {World("file", TRUE, [GoodCustom EXCEPT !.emailFrom = Absent], BaseEnv),
     World("file", TRUE, [GoodCustom EXCEPT !.emailFrom = Num(1)], BaseEnv),
     World("file", TRUE, [GoodCustom EXCEPT !.emailTo = Arr(<<>>)], BaseEnv),
     World("file", TRUE, [GoodCustom EXCEPT !.emailTo = Arr(<<"a@x.io", "not-an-email">>)], BaseEnv),
     World("file", TRUE, [GoodCustom EXCEPT !.emailTo = Num(1)], BaseEnv),
     World("file", TRUE, [GoodCustom EXCEPT !.packageName = Num(1)], BaseEnv),
     World("file", TRUE, [GoodCustom EXCEPT !.emailOnSuccess = Str("yes")], BaseEnv),
     World("file", TRUE, [GoodCustom EXCEPT !.dry = Num(1)], BaseEnv),
     World("file", TRUE, [GoodCustom EXCEPT !.transport = Absent], BaseEnv),
     [World("file", TRUE, GoodCustom, BaseEnv) EXCEPT !.on = FALSE]}

FailingOptionsWorlds ==
    {World("options", TRUE, [GoodCustom EXCEPT !.emailFrom = Str("not-an-email")], BaseEnv),
     World("options", TRUE, [GoodCustom EXCEPT !.emailFrom = Absent], BaseEnv),
     World("options", TRUE, [GoodCustom EXCEPT !.emailTo = Arr(<<"a@x.io", "not-an-email">>)], BaseEnv),
     World("options", TRUE, [GoodCustom EXCEPT !.transport = Transport(FALSE)], BaseEnv),
     World("options", TRUE, [GoodCustom EXCEPT !.transport = Absent], BaseEnv),
     [World("options", TRUE, GoodCustom, BaseEnv) EXCEPT !.on = FALSE]}

Worlds == FileWorlds \cup OptionsWorlds \cup FailingFileWorlds \cup FailingOptionsWorlds

(***************************************************************************)
(* The events the host delivers.                                           *)
(***************************************************************************)
Test(title, state) == [title |-> title, state |-> state]

\* spec.relative
Paths == {<<"a", ".", "j", "s">>, <<"1", "0">>, <<"9">>}

\* results.tests
TestLists ==
    {<<Test(<<<<"x">>>>, "passed"), Test(<<<<"y">>>>, "failed")>>,
     <<Test(<<<<"x">>, <<"y">>>>, "passed"), Test(<<<<"x", " ", "y">>>>, "failed")>>,
     <<Test(<<<<"x">>>>, "skipped"), Test(<<<<"2">>>>, "pending")>>,
     <<Test(<<<<"y">>>>, "unknown")>>}

AfterRunResults ==
    {[totalSuites |-> 1, totalTests |-> 3, totalFailed |-> 1, totalPassed |-> 2, totalPending |-> 0,
      totalSkipped |-> 0, runUrl |-> <<"u">>, totalDuration |-> 5],
     [totalSuites |-> 2, totalTests |-> 12, totalFailed |-> 0, totalPassed |-> 10, totalPending |-> 1,
      totalSkipped |-> 1, runUrl |-> <<>>, totalDuration |-> 5]}

NoAfterRun ==
    [totalSuites |-> 0, totalTests |-> 0, totalFailed |-> 0, totalPassed |-> 0, totalPending |-> 0,
     totalSkipped |-> 0, runUrl |-> <<>>, totalDuration |-> 0]

(***************************************************************************)
(* State.                                                                  *)
(***************************************************************************)
VARIABLES
    world,       \* the variant, settings and environment of this process
    registered,  \* "no", "ok" (the hooks are registered) or "failed" (registration threw)
    hooks,       \* the hook names a callback was registered for
    options,     \* the resolved configuration the handlers read
    allResults,  \* the result store; undefined until the first before:run
    phase,       \* "idle", "collecting" or "finalized": where the host is in a run
    runs,        \* run-complete events handled so far
    ev,          \* the latest event: its inputs and what its handler did
    resolved,    \* history: the configuration as registration resolved it
    completed    \* history: the paths of the file-complete events since the latest run-start

vars == <<world, registered, hooks, options, allResults, phase, runs, ev, resolved, completed>>

\* the record of an event; every handler starts from it
NoEvent ==
    [event |-> "none", outcome |-> "none",
     path |-> <<>>, tests |-> <<>>,
     prev |-> EmptyObject,  \* what the handler found: the entry of the path, or the whole store

     afterRun |-> NoAfterRun, lastRunDate |-> NoMarker, today |-> Wednesday,
     rendered |-> FALSE, sendCalls |-> 0, send |-> "none", mail |-> NoMail, log |-> <<>>]

Init ==
    /\ world \in Worlds
    /\ registered = "no"
    /\ hooks = {}
    /\ options = NoOptions
    /\ allResults = EmptyObject
    /\ phase = "idle"
    /\ runs = 0
    /\ ev = NoEvent
    /\ resolved = NoOptions
    /\ completed = {}

\* no handler is suspended at its await
HostIdle == registered = "ok" /\ ev.outcome # "pending"

(***************************************************************************)
(* registerCypressReportResults(on, config[, options])                     *)
(***************************************************************************)
Register ==
    /\ registered = "no"
    /\ IF registerThrows(world)
       THEN /\ registered' = "failed"
            /\ ev' = [NoEvent EXCEPT !.event = "register", !.outcome = "threw"]
            /\ hooks' = HooksRegistered(world)
            /\ UNCHANGED <<options, resolved>>
       ELSE /\ registered' = "ok"
            /\ hooks' = HooksRegistered(world)
            /\ options' = resolvedOptions(world)
            /\ resolved' = resolvedOptions(world)
            /\ ev' = [NoEvent EXCEPT !.event = "register", !.outcome = "returned"]
    /\ UNCHANGED <<world, allResults, phase, runs, completed>>

(***************************************************************************)
(* on('before:run')                                                        *)
(***************************************************************************)
\* a slip: the store is created once and never cleared
StoreKept(store) == store

\* lines 234 and 639: allResults = {}
StoreAtRunStart(store) == EmptyObject

BeforeRun ==
    /\ HostIdle
    /\ phase \in {"idle", "finalized"}
    /\ allResults' = StoreAtRunStart(allResults)
    /\ phase' = "collecting"
    /\ completed' = {}
    /\ ev' = [NoEvent EXCEPT !.event = "before:run", !.outcome = "returned", !.prev = allResults]
    /\ UNCHANGED <<world, registered, hooks, options, runs, resolved>>

(***************************************************************************)
(* on('after:spec')                                                        *)
(***************************************************************************)
\* a slip: the handler refuses a file once the run has been reported
AcceptsSpecWhileCollecting(ph) == ph = "collecting"

\* the handler consults nothing but its arguments and the store
AcceptsSpec(ph) == TRUE

AfterSpec(path, tests) ==
    /\ HostIdle
    /\ phase \in {"collecting", "finalized"}
    /\ ObjHas(allResults, path) \/ fileCount(allResults) < MaxFiles
    /\ allResults' = IF AcceptsSpec(phase) THEN RecordSpec(allResults, path, tests) ELSE allResults
    /\ completed' = IF AcceptsSpec(phase) THEN completed \cup {path} ELSE completed
    /\ ev' = [NoEvent EXCEPT !.event = "after:spec",
                             !.outcome = IF AcceptsSpec(phase) THEN "returned" ELSE "threw",
                             !.path = path, !.tests = tests,
                             !.prev = IF ObjHas(allResults, path) THEN ObjGet(allResults, path) ELSE EmptyObject]
    /\ UNCHANGED <<world, registered, hooks, options, phase, runs, resolved>>

(***************************************************************************)
(* on('after:run'): the handler up to its await (lines 247-371, 652-785).  *)
(***************************************************************************)
\* the value of hasRunToday when the report is built: the file variant
\* declares it before the success branch, which alone computes it
hasRunTodayAtReport(cfg, totals, marker, today) ==
    IF totals.failed = 0 /\ cfg.emailOnSuccess THEN hasRunTodayOf(marker, today) ELSE FALSE

\* a slip: the dry setting is not consulted before sending
DryIgnored(cfg) == FALSE

\* lines 361 and 775: if (options.dry)
DryRun(cfg) == cfg.dry

AfterRun(afterRun, marker, today) ==
    /\ HostIdle
    /\ phase = "collecting"
    /\ runs < MaxRuns
    /\ runs' = runs + 1
    /\ phase' = "finalized"
    /\ LET totals == totalsOf(afterRun)
           to == Escalated(options, totals)
           hrt == hasRunTodayAtReport(options, totals, marker, today)
           mail == emailOptionsOf(world.variant, world.env, options, to, allResults, afterRun, marker, hrt)
           seen == [NoEvent EXCEPT !.event = "after:run", !.afterRun = afterRun, !.lastRunDate = marker,
                                   !.today = today]
       IN  IF EscalationThrows(world.variant, options, totals)
           THEN /\ options' = options
                /\ ev' = [seen EXCEPT !.outcome = "rejected", !.log = <<"totals">>]
           ELSE /\ options' = [options EXCEPT !.emailTo = to]
                /\ ev' = IF Suppressed(options, totals, marker, today)
                         THEN [seen EXCEPT !.outcome = "resolved",
                                           !.log = IF AlreadyToday(options, totals, marker, today)
                                                   THEN <<"totals", "already sent">> ELSE <<"totals">>]
                         ELSE IF RenderThrows(allResults)
                         THEN [seen EXCEPT !.outcome = "rejected", !.log = <<"totals", "sending">>]
                         ELSE IF DryRun(options)
                         THEN [seen EXCEPT !.outcome = "resolved", !.rendered = TRUE, !.mail = mail,
                                           !.log = <<"totals", "sending", "dry run", "subject", "text">>]
                         ELSE [seen EXCEPT !.outcome = "pending", !.rendered = TRUE, !.mail = mail,
                                           !.sendCalls = 1, !.send = "inflight",
                                           !.log = <<"totals", "sending">>]
    /\ UNCHANGED <<world, registered, hooks, allResults, resolved, completed>>

(***************************************************************************)
(* emailSender.sendMail and the rest of the handler (lines 368-369,        *)
(* 782-783).                                                               *)
(***************************************************************************)
\* the promise of sendMail settles
SendMailSucceeds ==
    /\ registered = "ok"
    /\ ev.send = "inflight"
    /\ ev' = [ev EXCEPT !.send = "done"]
    /\ UNCHANGED <<world, registered, hooks, options, allResults, phase, runs, resolved, completed>>

SendMailFails ==
    /\ registered = "ok"
    /\ ev.send = "inflight"
    /\ ev' = [ev EXCEPT !.send = "failed"]
    /\ UNCHANGED <<world, registered, hooks, options, allResults, phase, runs, resolved, completed>>

\* a slip: sendMail is not awaited
AwaitSkipped(send) == TRUE

\* await: the handler goes on once the promise has settled
AwaitOver(send) == send \in {"done", "failed"}

\* a slip: a rejected send is caught and dropped
SwallowedOutcome(send) == "resolved"

\* the awaited promise is not caught: its rejection is the handler's
ResumeOutcome(send) == IF send = "failed" THEN "rejected" ELSE "resolved"

AfterRunResumes ==
    /\ registered = "ok"
    /\ ev.outcome = "pending"
    /\ AwaitOver(ev.send)
    /\ ev' = IF ResumeOutcome(ev.send) = "rejected"
             THEN [ev EXCEPT !.outcome = "rejected"]
             ELSE [ev EXCEPT !.outcome = "resolved", !.log = Append(@, "emailed")]
    /\ UNCHANGED <<world, registered, hooks, options, allResults, phase, runs, resolved, completed>>

Next ==
    \/ Register
    \/ BeforeRun
    \/ \E path \in Paths, tests \in TestLists : AfterSpec(path, tests)
    \/ \E afterRun \in AfterRunResults, marker \in Markers, today \in Dates : AfterRun(afterRun, marker, today)
    \/ SendMailSucceeds
    \/ SendMailFails
    \/ AfterRunResumes

Spec == Init /\ [][Next]_vars

(***************************************************************************)
(* Properties.                                                             *)
(***************************************************************************)
RunComplete == ev.event = "after:run"

FailedRun == RunComplete /\ ev.afterRun.totalFailed > 0

PassedRun == RunComplete /\ ev.afterRun.totalFailed = 0

\* the handler fails before it builds the report: an accumulated status
\* outside validStatuses, or (options variant, failed run) an invalid
\* address in EMAIL_TO_ON_FAILURE
RunCompleteError ==
    \/ RenderThrows(allResults)
    \/ FailedRun /\ world.variant = "options" /\ ValidateThrows(options.emailToOnFail)

\* pattern occurs in text
Contains(text, pattern) ==
    \E i \in 1..(Len(text) - Len(pattern) + 1) : SubSeq(text, i, i + Len(pattern) - 1) = pattern

\* C1 as stated: every run-complete event with failed > 0 sends; with dry run
\* off the mail sender is invoked, whatever emailOnSuccess, the weekday and
\* the last-run marker.
C1_FailedRunAlwaysSends == (FailedRun /\ ~options.dry) => ev.sendCalls = 1

\* C1 amended: a run-complete event with failed > 0 is never suppressed:
\* unless the handler fails with an error first (an unrecognised status, an
\* invalid EMAIL_TO_ON_FAILURE address), the report is rendered and, with dry
\* run off, the mail sender is invoked, whatever emailOnSuccess, the weekday
\* and the last-run marker; and only such an error keeps the report back.
C1_FailedRunSendsUnlessError ==
    FailedRun =>
        /\ ~RunCompleteError => (ev.rendered /\ (~options.dry => ev.sendCalls = 1))
        /\ RunCompleteError => (ev.outcome = "rejected" /\ ev.sendCalls = 0)

C1_Witness ==
    /\ FailedRun
    /\ ~options.emailOnSuccess
    /\ ev.today.weekday = "Saturday"
    /\ ev.lastRunDate # NoMarker
    /\ SameDay(ev.lastRunDate, ev.today)
    /\ ev.sendCalls = 1

\* C2: a run-complete event with failed = 0 while emailOnSuccess is false
\* sends nothing: the mail sender is not invoked and no report is rendered,
\* for any last-run marker and any accumulated results.
C2_SuccessDisabledSendsNothing ==
    (PassedRun /\ ~options.emailOnSuccess) =>
        /\ ev.sendCalls = 0
        /\ ev.send = "none"
        /\ ~ev.rendered
        /\ ev.mail = NoMail
        /\ ev.outcome = "resolved"

C2_Witness ==
    /\ PassedRun
    /\ ~options.emailOnSuccess
    /\ ev.lastRunDate # NoMarker
    /\ fileCount(allResults) > 0
    /\ ev.sendCalls = 0

\* C3 as stated: on a Saturday or Sunday a run-complete event with failed = 0
\* is suppressed: the mail sender is not invoked.
C3_WeekendSuppressed ==
    (PassedRun /\ ev.today.weekday \in {"Saturday", "Sunday"}) => ev.sendCalls = 0

\* surrounding quote characters removed
StripQuotes(s) ==
    LET a == IF Len(s) > 0 /\ s[1] = Quote[1] THEN 2 ELSE 1
        b == IF Len(s) > 0 /\ s[Len(s)] = Quote[1] THEN Len(s) - 1 ELSE Len(s)
    IN  SubSeq(s, a, b)

\* the calendar date of a marker as the specification reads it
CalendarDate(marker) == Substring0(StripQuotes(marker), DateLen)

TodayDate == Substring0(toISOString(ev.today), DateLen)

\* C4 as stated: with failed = 0 and emailOnSuccess true, a marker whose
\* calendar date, after stripping surrounding quotes, is today's suppresses
\* the notification, also when the marker is wrapped in quotes.
C4_SameDayMarkerSuppressed ==
    (PassedRun /\ options.emailOnSuccess /\ ev.lastRunDate # NoMarker /\ CalendarDate(ev.lastRunDate) = TodayDate)
        => ev.sendCalls = 0

\* the case C5 is about
C5_Case ==
    /\ PassedRun
    /\ options.emailOnSuccess
    /\ ev.today.weekday \notin {"Saturday", "Sunday"}
    /\ ~options.dry
    /\ (ev.lastRunDate = NoMarker \/ CalendarDate(ev.lastRunDate) # TodayDate)

\* the handler has completed only after the send it started has completed
CompletesAfterSend ==
    /\ ev.outcome = "resolved" => ev.send = "done"
    /\ ev.outcome = "rejected" => ev.send = "failed"

\* C5 as stated: in that case the handler invokes the mail sender exactly
\* once and completes only after that send has completed.
C5_SuccessSendsOnceAndAwaits == C5_Case => (ev.sendCalls = 1 /\ CompletesAfterSend)

\* C5 amended: the same, provided every accumulated status is one of the
\* four known ones (otherwise rendering fails and nothing is sent).
C5_SuccessSendsOnceAndAwaitsIfRendered ==
    /\ (C5_Case /\ ~RenderThrows(allResults)) => (ev.sendCalls = 1 /\ CompletesAfterSend)
    /\ (C5_Case /\ RenderThrows(allResults)) => (ev.sendCalls = 0 /\ ev.outcome = "rejected")

C5_Witness ==
    /\ C5_Case
    /\ ev.lastRunDate # NoMarker
    /\ ev.sendCalls = 1
    /\ ev.send = "done"
    /\ ev.outcome = "resolved"

\* C6 as stated: on a failed run the recipients handed to the mail sender are
\* the duplicate-free union of emailTo and emailToOnFail.
C6_FailedRecipientsDuplicateFree ==
    (FailedRun /\ ev.sendCalls = 1) =>
        /\ NoDuplicates(ev.mail.to)
        /\ Range(ev.mail.to) = Range(resolved.emailTo) \cup Range(resolved.emailToOnFail)

\* C7 as stated: on a successful run that sends, the recipients are the
\* emailTo list resolved at registration, after any earlier runs.
C7_SuccessRecipientsAreEmailTo ==
    (PassedRun /\ ev.sendCalls = 1) => ev.mail.to = resolved.emailTo

\* C8: after registration the configuration changes only in the step that
\* enters a run-complete handler with failed > 0, and then only by one append
\* of emailToOnFail to emailTo.
C8_Step ==
    registered = "ok" =>
        IF ev.outcome # "pending" /\ ev'.event = "after:run" /\ ev'.afterRun.totalFailed > 0
        THEN options' \in {options, [options EXCEPT !.emailTo = options.emailTo \o options.emailToOnFail]}
        ELSE options' = options

C8_ConfigurationFrame == [][C8_Step]_vars

C8_Witness ==
    /\ FailedRun
    /\ Len(resolved.emailToOnFail) > 0
    /\ options = [resolved EXCEPT !.emailTo = resolved.emailTo \o resolved.emailToOnFail]

\* the titles of a test list, joined
TitlesOf(tests) == {testTitle(tests[i]) : i \in 1..Len(tests)}

\* the state of the last test of the list with that title
LastStateOf(tests, title) ==
    tests[CHOOSE i \in 1..Len(tests) :
            /\ testTitle(tests[i]) = title
            /\ \A j \in (i + 1)..Len(tests) : testTitle(tests[j]) # title].state

\* C9: after a file-complete event the entry of its path holds exactly the
\* titles and statuses of that event, whatever the entry held before.
C9_FileCompleteOverwrites ==
    ev.event = "after:spec" =>
        /\ ObjHas(allResults, ev.path)
        /\ LET entry == ObjGet(allResults, ev.path)
           IN  /\ NoDuplicates(ObjKeys(entry))
               /\ Range(ObjKeys(entry)) = TitlesOf(ev.tests)
               /\ \A title \in TitlesOf(ev.tests) : ObjGet(entry, title) = LastStateOf(ev.tests, title)

C9_Witness ==
    /\ ev.event = "after:spec"
    /\ \E i \in 1..Len(ev.prev) : ev.prev[i][1] \notin TitlesOf(ev.tests)
    /\ \E i \in 1..Len(ev.prev) : ev.prev[i][1] \in TitlesOf(ev.tests)

\* the heading of a file's section in the report
SectionHeading(path) == path \o NL \o dashes(path) \o NL

\* the first line of a report over n files
FirstLine(afterRun, n) ==
    DecStr(afterRun.totalTests) \o <<" total tests across ">> \o DecStr(n) \o <<" test files.">> \o NL

\* C10: a run-start event leaves the store empty, and a report lists and
\* counts only the files completed since the latest run-start.
C10_ReportOnlyThisRun ==
    /\ ev.event = "before:run" => allResults = EmptyObject
    /\ (RunComplete /\ ev.rendered) =>
        /\ SubSeq(ev.mail.text, 1, Len(FirstLine(ev.afterRun, Cardinality(completed))))
               = FirstLine(ev.afterRun, Cardinality(completed))
        /\ \A path \in Paths : Contains(ev.mail.text, SectionHeading(path)) <=> path \in completed

C10_Witness ==
    /\ ev.event = "before:run"
    /\ runs > 0
    /\ Len(ev.prev) > 0
    /\ allResults = EmptyObject

\* the run-complete event was not suppressed: a failed run, or a successful
\* one with emailOnSuccess on and no marker of today
NotSuppressed ==
    RunComplete /\ (ev.afterRun.totalFailed > 0 \/ (options.emailOnSuccess /\ ~hasRunTodayOf(ev.lastRunDate, ev.today)))

\* the report was written to the log
ReportLogged == ev.rendered /\ "subject" \in Range(ev.log) /\ "text" \in Range(ev.log)

\* C11 as stated: with dry run on, no run-complete event invokes the mail
\* sender, and every run that is not suppressed has its report rendered and
\* logged.
C11_DryRunRendersNeverSends ==
    (RunComplete /\ options.dry) =>
        /\ ev.sendCalls = 0
        /\ ev.send = "none"
        /\ NotSuppressed => ReportLogged

\* C11 amended: with dry run on, no run-complete event invokes the mail
\* sender; a run that is not suppressed has its report rendered and logged
\* unless the handler fails with an error first (an unrecognised status, an
\* invalid EMAIL_TO_ON_FAILURE address), and then nothing is rendered.
C11_DryRunRendersUnlessError ==
    (RunComplete /\ options.dry) =>
        /\ ev.sendCalls = 0
        /\ ev.send = "none"
        /\ (NotSuppressed /\ ~RunCompleteError) => (ReportLogged /\ ev.outcome = "resolved" /\ ev.mail # NoMail)
        /\ (NotSuppressed /\ RunCompleteError) => (~ev.rendered /\ ev.outcome = "rejected")

C11_Witness ==
    /\ FailedRun
    /\ options.dry
    /\ fileCount(allResults) > 0
    /\ ReportLogged
    /\ ev.sendCalls = 0

\* C12: when registration fails, for whatever reason, no callback has been
\* registered for before:run, after:spec or after:run, and no handler runs.
C12_FailedRegistrationRegistersNothing ==
    /\ registered = "failed" =>
        /\ hooks = {}
        /\ ev.event = "register"
        /\ ev.outcome = "threw"
        /\ phase = "idle"
        /\ runs = 0
    /\ registered = "ok" => hooks = {"before:run", "after:spec", "after:run"}
    /\ registered = "no" => hooks = {}

\* the failure is the last check before the hooks: a sender without sendMail
C12_Witness ==
    /\ registered = "failed"
    /\ hooks = {}
    /\ world.custom.transport = Transport(FALSE)
    /\ world.given
    /\ world.on

\* C13: a resolved configuration has a non-empty emailTo list of valid
\* addresses and an emailFrom that is one valid address.
C13_ResolvedAddressesValid ==
    registered = "ok" =>
        /\ isEmail(resolved.emailFrom)
        /\ Len(resolved.emailTo) >= 1
        /\ \A i \in 1..Len(resolved.emailTo) : isEmail(resolved.emailTo[i])
        /\ options.emailFrom = resolved.emailFrom

C13_Witness ==
    /\ registered = "ok"
    /\ world.variant = "file"
    /\ world.custom.emailTo.t = "arr"
    /\ Len(resolved.emailTo) = 2
    /\ resolved.emailFrom = "from@x.io"

\* the recipient list as the settings give it, a lone string counting as a
\* list of one
GivenEmailTo == IF world.custom.emailTo.t = "arr" THEN world.custom.emailTo.a
                ELSE IF world.custom.emailTo.t = "str" THEN <<world.custom.emailTo.s>>
                ELSE <<>>

\* C14: the emailTo list of a resolved configuration has no duplicates and is
\* no longer than the list given.
C14_ResolvedEmailToDuplicateFree ==
    registered = "ok" =>
        /\ NoDuplicates(resolved.emailTo)
        /\ Len(resolved.emailTo) <= Len(GivenEmailTo)

\* the settings give a valid emailFrom, a valid non-empty emailTo and a
\* sender, and leave emailToOnFail out
OmitsOnlyEmailToOnFail ==
    /\ world.given /\ world.on
    /\ world.custom.emailToOnFail = Absent
    /\ world.env.EMAIL_TO_ON_FAILURE = <<>>
    /\ world.custom.emailFrom.t = "str" /\ isEmail(world.custom.emailFrom.s)
    /\ Len(GivenEmailTo) >= 1
    /\ \A i \in 1..Len(GivenEmailTo) : isEmail(GivenEmailTo[i])
    /\ world.custom.transport = Transport(TRUE)
    /\ world.custom.packageName.t \in {"absent", "str"}
    /\ world.custom.emailOnSuccess.t \in {"absent", "bool"}
    /\ world.custom.dry.t \in {"absent", "bool"}

\* C15: settings that omit emailToOnFail and are otherwise valid resolve, and
\* registration registers the three hooks.
C15_EmailToOnFailOptional ==
    (registered # "no" /\ OmitsOnlyEmailToOnFail) =>
        (registered = "ok" /\ hooks = Hooks)

\* C16: one run-complete event invokes the sender at most once, and a failed
\* send is the failure of the handler: the handler never completes
\* successfully after it.
C16_SendFailurePropagates ==
    RunComplete =>
        /\ ev.sendCalls <= 1
        /\ ev.send = "failed" => (ev.sendCalls = 1 /\ ev.outcome \in {"pending", "rejected"})
        /\ (ev.send = "failed" /\ ev.outcome = "rejected") => "emailed" \notin Range(ev.log)

C16_Witness ==
    RunComplete /\ ev.send = "failed" /\ ev.outcome = "rejected" /\ ev.sendCalls = 1

\* what the handler has logged when it calls the sender
LoggedBeforeSend == <<"totals", "sending">>

\* C17: a failed send is recorded in the process log before the handler
\* fails: when the handler has failed on a failed send, the log holds an
\* entry written after the send was started.
C17_SendFailureLogged ==
    (RunComplete /\ ev.send = "failed" /\ ev.outcome = "rejected") =>
        /\ Len(ev.log) > Len(LoggedBeforeSend)
        /\ ev.log[Len(ev.log)] # "emailed"

\* the joined titles of a test list in the order of the list, a repeated
\* title standing where it first occurs
RECURSIVE TitleOrder(_, _)
TitleOrder(tests, seen) ==
    IF Len(tests) = 0 THEN <<>>
    ELSE IF testTitle(tests[1]) \in seen THEN TitleOrder(Tail(tests), seen)
    ELSE <<testTitle(tests[1])>> \o TitleOrder(Tail(tests), seen \cup {testTitle(tests[1])})

\* C18: the report lists the files in the order they completed and the tests
\* of a file in the order of its test list: after a file-complete event the
\* keys of the file's entry stand in the order of the event's test list, and
\* a file that completes for the first time is the last file of the report.
C18_ReportFollowsCompletionOrder ==
    ev.event = "after:spec" =>
        /\ ObjKeys(ObjGet(allResults, ev.path)) = TitleOrder(ev.tests, {})
        /\ ev.prev = EmptyObject => reportFiles(allResults)[Len(reportFiles(allResults))] = ev.path

\* the symbol the report shows for each of the four statuses
SymbolOf == [passed |-> "(check mark)", failed |-> "(cross mark)",
             pending |-> "(hourglass)", skipped |-> "(warning sign)"]

\* some accumulated test has a status outside the four
HasUnknownStatus ==
    \E i \in 1..Len(allResults) : \E j \in 1..Len(allResults[i][2]) :
        allResults[i][2][j][2] \notin DOMAIN SymbolOf

\* C19: a rendered report shows every accumulated test with the fixed symbol
\* of its status, and a run-complete event that is not suppressed while some
\* accumulated test has a status outside the four fails with an error:
\* nothing is rendered and the mail sender is not invoked.
C19_FixedSymbolsUnknownStatusFails ==
    /\ (RunComplete /\ ev.rendered) =>
        /\ ~HasUnknownStatus
        /\ \A i \in 1..Len(allResults) : \A j \in 1..Len(allResults[i][2]) :
               Contains(ev.mail.text,
                        NL \o <<SymbolOf[allResults[i][2][j][2]], " ">> \o allResults[i][2][j][1])
        /\ "undefined" \notin Range(ev.mail.text)
    /\ (NotSuppressed /\ HasUnknownStatus) =>
        /\ ev.outcome = "rejected"
        /\ ~ev.rendered
        /\ ev.mail = NoMail
        /\ ev.sendCalls = 0
        /\ ev.send = "none"

C19_Witness ==
    /\ FailedRun
    /\ HasUnknownStatus
    /\ ev.outcome = "rejected"
    /\ ev.log = <<"totals", "sending">>
    /\ ~options.dry

\* C20: a file-complete event after the run-complete event of a run returns
\* normally and writes the file's entry into the store exactly as it would
\* while collecting; the run stays reported.
C20_LateFileCompleteRecorded ==
    (ev.event = "after:spec" /\ phase = "finalized") =>
        /\ ev.outcome = "returned"
        /\ ObjHas(allResults, ev.path)
        /\ ObjGet(allResults, ev.path) = FillSpecResults(EmptyObject, ev.tests)
        /\ ev.path \in completed
        /\ runs >= 1

C20_Witness ==
    /\ ev.event = "after:spec"
    /\ phase = "finalized"
    /\ ev.prev = EmptyObject
    /\ fileCount(allResults) = 2
    /\ ev.outcome = "returned"

\* C21: after a file-complete event the report has one test line under the
\* file for every record of the event's test list, each showing the status
\* of its record, also when two records have the same joined title.
C21_OneLinePerTestRecord ==
    ev.event = "after:spec" =>
        LET entry == ObjGet(allResults, ev.path)
        IN  /\ Len(ObjKeys(entry)) = Len(ev.tests)
            /\ \A i \in 1..Len(ev.tests) : ObjGet(entry, testTitle(ev.tests[i])) = ev.tests[i].state

\* the report carries the line 'Has run today: <value>' with that value
HasRunTodayLine(value) == Contains(ev.mail.text, <<"Has run today: ", value>>)

\* C22: when a sent or dry-run report carries the line 'Has run today:', its
\* value is true exactly when the first ten characters of the last-run
\* marker are today's ISO calendar date, on failed and successful runs alike.
C22_HasRunTodayLineTruthful ==
    (RunComplete /\ ev.rendered /\ (HasRunTodayLine("true") \/ HasRunTodayLine("false"))) =>
        /\ HasRunTodayLine("true") <=> Substring0(ev.lastRunDate, DateLen) = TodayDate
        /\ HasRunTodayLine("false") <=> Substring0(ev.lastRunDate, DateLen) # TodayDate

====
